---- MODULE Spec2Model ----
(***************************************************************************)
(* Olive render cache: the VideoRenderWorker job protocol                  *)
(* (hash / check / reserve / render / download / release) run by several   *)
(* workers against one shared VideoRenderFrameCache, and the PlaybackCache *)
(* invalidated-range tracker.                                              *)
(*                                                                         *)
(* Spec       workers running RenderInternal concurrently                  *)
(* CacheSpec  one PlaybackCache driven by its public operations            *)
(***************************************************************************)
EXTENDS Integers, Sequences, FiniteSets, TLC

\* ------------------------------------------------------------------ bounds
NumWorkers == 2
NumPaths == 1

Workers == 1..NumWorkers
\* A path stands for one (root node, time, width, height, render mode) whose
\* graph is not modified while jobs run.
Paths == 1..NumPaths

\* ------------------------------------------------------------ worker data
\* One representative per arm of the switch in Download.
Formats == {"PIX_FMT_RGBA8", "PIX_FMT_RGBA32F", "PIX_FMT_INVALID"}

\* operating_mode_ as its three flags.
OperatingModes == [kHashOnly : BOOLEAN, kRenderOnly : BOOLEAN, kDownloadOnly : BOOLEAN]

kHashRenderCache == [kHashOnly |-> TRUE, kRenderOnly |-> TRUE, kDownloadOnly |-> TRUE]

\* QByteArray hash; before anything is hashed into it.
EmptyHash == <<>>

\* hasher.result(): the digest of the video parameters and of the graph at
\* the path, taken as injective on what was fed to it.
HashOf(fmt, p) == <<fmt, p>>

Fingerprints == {HashOf(f, p) : f \in Formats, p \in Paths}

NoPath == 0

Signal(name, p, h, b) == [sig |-> name, path |-> p, hash |-> h, flag |-> b]

\* --------------------------------------------------- VideoRenderFrameCache
\* File extension chosen for the artifact of a pixel format.
CacheExt(fmt) == IF fmt = "PIX_FMT_RGBA32F" THEN "exr" ELSE "jpg"

\* The artifact name of (hash, format): the key of the persisted index.
CachePathName(h, fmt) == <<h, CacheExt(fmt)>>

\* Complete entry in the persisted index?
HasHash(index, h, fmt) == CachePathName(h, fmt) \in index

\* Atomic check-and-insert into the in-flight registry:
\* [acquired, registry afterwards].
TryCache(registry, h) ==
  IF h \in registry
    THEN [acquired |-> FALSE, registry |-> registry]
    ELSE [acquired |-> TRUE, registry |-> registry \cup {h}]

RemoveHashFromCurrentlyCaching(registry, h) == registry \ {h}

\* ------------------------------------------------------------ TimeRangeList
MaxTime == 3
\* How far outside [0, MaxTime] a Shift may carry a stored range.
Slack == 1

Times == 0..MaxTime

\* Half-open [in, out).
TimeRange(i, o) == [in |-> i, out |-> o]

\* Ranges handed to the operations: in <= out.
Ranges == {r \in [in : Times, out : Times] : r.in <= r.out}

Call(op, a, b) == [op |-> op, a |-> a, b |-> b]

Min(S) == CHOOSE x \in S : \A y \in S : x <= y
Max(S) == CHOOSE x \in S : \A y \in S : x >= y

Elems(list) == {list[i] : i \in 1..Len(list)}

\* r + diff
Moved(r, diff) == TimeRange(r.in + diff, r.out + diff)

\* Union: every stored range overlapping or touching r is merged with r into
\* one span; a degenerate r changes nothing.
InsertTimeRange(list, r) ==
  IF r.in = r.out
    THEN list
    ELSE LET Before(a) == a.out < r.in
             After(a) == a.in > r.out
             Joined(a) == ~Before(a) /\ ~After(a)
             joined == Elems(SelectSeq(list, Joined)) \cup {r}
             span == TimeRange(Min({a.in : a \in joined}), Max({a.out : a \in joined}))
         IN SelectSeq(list, Before) \o <<span>> \o SelectSeq(list, After)

\* What is left of the stored range a once r is subtracted from it.
Remainder(a, r) ==
  IF r.in < r.out /\ a.in < r.out /\ r.in < a.out
    THEN (IF a.in < r.in THEN <<TimeRange(a.in, r.in)>> ELSE <<>>)
           \o (IF r.out < a.out THEN <<TimeRange(r.out, a.out)>> ELSE <<>>)
    ELSE <<a>>

RECURSIVE RemoveTimeRange(_, _)
\* Subtraction of r from every stored range: a range may be split in two,
\* shortened or dropped.
RemoveTimeRange(list, r) ==
  IF list = <<>>
    THEN <<>>
    ELSE Remainder(Head(list), r) \o RemoveTimeRange(Tail(list), r)

\* The stored ranges that overlap q, unclipped.
Intersects(list, q) ==
  LET Overlaps(a) == a.in < q.out /\ q.in < a.out
  IN SelectSeq(list, Overlaps)

isEmpty(list) == list = <<>>

\* Larger than every time the model reaches.
RATIONAL_MAX == 1000

\* -------------------------------------------------------------- node graph
\* The graphs a job hashes: a root node with the two texture inputs base and
\* blend, each connected to the track or to the solid generator; the track
\* holds one block, from time 0 on, whose buffer input is connected to the
\* media node; the media node has one footage input.
MaxLength == 3
MaxOffset == 1
NumValues == 2

\* In how many fields the graphs of two jobs differ at most.
MaxEdits == 2

Jobs == {"first", "second"}

\* path.in(): the time the jobs hash the graph at.
HashTime == 1

Graphs ==
  [format : Formats \ {"PIX_FMT_INVALID"},  \* video_params_.format()
   base : {"track", "solid"},               \* node connected to the root's base input
   blend : {"track", "solid"},              \* node connected to the root's blend input
   type : {"kClip", "kTransition"},         \* Block::type() of the block
   length : 1..MaxLength,                   \* value of the block's length input
   media_in : 0..MaxOffset,                 \* value of the block's media-in input
   speed : {"", "solid"},                   \* node connected to the block's speed input, if any
   footage : 1..NumValues,                  \* file of the media node's footage input
   color : 1..NumValues]                    \* value of the solid generator's colour input

\* The graph of a new project.
NewGraph ==
  [format |-> "PIX_FMT_RGBA8", base |-> "track", blend |-> "track", type |-> "kClip",
   length |-> 1, media_in |-> 0, speed |-> "", footage |-> 1, color |-> 1]

RECURSIVE GCD(_, _)
GCD(a, b) == IF b = 0 THEN a ELSE GCD(b, a % b)

\* The bytes of a double n / d, one string for each value.
Double(n, d) == ToString(n \div GCD(n, d)) \o "/" \o ToString(d \div GCD(n, d))

IsTrack(n) == n = "track"

IsBlock(n) == n = "block"

\* The block of the track that is active at the time, "null" when none is.
BlockAtTime(g, time) == IF 0 <= time /\ time < g.length THEN "block" ELSE "null"

\* Node::id(): the identifier of the node's type.
id(g, n) ==
  CASE n = "root" -> "merge"
    [] n = "block" -> (IF g.type = "kTransition" THEN "crossdissolve" ELSE "clip")
    [] n = "solid" -> "solidgenerator"
    [] n = "media" -> "media"

NodeInput(name, data_type, connected, value) ==
  [name |-> name, data_type |-> data_type, connected |-> connected, value |-> value]

\* Node::parameters(): the inputs of a node, in their order.
parameters(g, n) ==
  CASE n = "root" -> <<NodeInput("base", "kTexture", g.base, 0),
                       NodeInput("blend", "kTexture", g.blend, 0)>>
    [] n = "block" -> <<NodeInput("media_in", "kRational", "", g.media_in),
                        NodeInput("speed", "kFloat", g.speed, 1),
                        NodeInput("length", "kRational", "", g.length),
                        NodeInput("buffer", "kTexture", "media", 0)>>
    [] n = "solid" -> <<NodeInput("color", "kColor", "", g.color)>>
    [] n = "media" -> <<NodeInput("footage", "kFootage", "", g.footage)>>

IsConnected(input) == input.connected # ""

\* The node's own time mapping: a block maps the time to its media time (its
\* in-point is 0, its speed 1), every other node passes the time on.
InputTimeAdjustment(g, n, input, time) ==
  IF IsBlock(n) /\ input.name = "buffer" THEN time + g.media_in ELSE time

\* Progress of the transition at the time: elapsed over length, for the whole
\* transition, for its incoming side and for its outgoing side.
GetTotalProgress(g, time) == Double(time, g.length)

GetInProgress(g, time) == Double(time, g.length)

GetOutProgress(g, time) == Double(g.length - time, g.length)

\* The raw bytes of a literal value.
ValueToBytes(data_type, value) == ToString(value)

\* The stream of a footage input; its decoder resolves.
ResolveStreamFromInput(input) ==
  [filename |-> "file" \o ToString(input.value), timestamp |-> "Thu Jan 1 1970", index |-> 0,
   type |-> "kVideo", config |-> "config.ocio", colorspace |-> "sRGB",
   premultiplied_alpha |-> 0, start_time |-> 0]

\* Lines 138-148: what a transition block adds after its id.
AddProgress(g, n, time) ==
  IF IsBlock(n) /\ g.type = "kTransition"
    THEN GetTotalProgress(g, time) \o GetInProgress(g, time) \o GetOutProgress(g, time)
    ELSE ""

\* The test of lines 155-164 reading the inputs of a block as any others.
IsIgnored_Never(n, input) == FALSE

\* Lines 155-164: Ignore some Block attributes when hashing.
IsIgnored(n, input) == IsBlock(n) /\ input.name \in {"media_in", "speed", "length"}

\* The else branch of lines 173-177 adding nothing.
AddValue_Nothing(input, input_time) == ""

\* Lines 173-177: the value of an unconnected input at the time.
AddValue(input, input_time) == ValueToBytes(input.data_type, input.value)

\* Lines 180-230: the footage details of a footage input.
AddFootage(input, input_time) ==
  IF input.data_type = "kFootage"
    THEN LET stream == ResolveStreamFromInput(input)
         IN stream.filename \o stream.timestamp \o ToString(stream.index)
              \o stream.config \o stream.colorspace \o ToString(stream.premultiplied_alpha)
              \o ToString(input_time) \o "/" \o ToString(1)
              \o ToString(stream.start_time)
    ELSE ""

RECURSIVE HashNodeRecursively(_, _, _)
RECURSIVE HashInputs(_, _, _, _)
\* The foreach of lines 150-232 over the inputs of node n.
HashInputs(g, n, inputs, time) ==
  IF inputs = <<>>
    THEN ""
    ELSE LET input == Head(inputs)
             input_time == InputTimeAdjustment(g, n, input, time)
         IN (IF IsIgnored(n, input)
               THEN ""
               ELSE (IF IsConnected(input)
                       THEN \* Traverse down this edge
                            HashNodeRecursively(g, input.connected, input_time)
                       ELSE AddValue(input, input_time))
                    \o AddFootage(input, input_time))
            \o HashInputs(g, n, Tail(inputs), time)

\* Lines 124-233: the bytes the call adds to the hasher, in order.
HashNodeRecursively(g, node, time) ==
  LET n == IF IsTrack(node) THEN BlockAtTime(g, time) ELSE node
  IN IF n = "null"
       THEN ""
       ELSE id(g, n) \o AddProgress(g, n, time) \o HashInputs(g, n, parameters(g, n), time)

\* Lines 64-80: the bytes fed to the hasher of a job, the video parameters
\* first; hasher.result() is taken as injective on them.
HashGraph(g, time) ==
  ToString(1920) \o ToString(1080) \o g.format \o "kOffline"
    \o HashNodeRecursively(g, "root", time)

VARIABLES
  operating_mode_,    \* [Workers -> OperatingModes]
  video_params_,       \* [Workers -> Formats]: video_params_.format()
  pc,                  \* [Workers -> position inside RenderInternal]
  path,                \* [Workers -> the job's path, NoPath when idle]
  hash,                \* [Workers -> local `hash` of RenderInternal]
  texture,             \* [Workers -> "null" | "texture"]: local `texture`
  written,             \* [Workers -> "none" | "ok" | "failed"]: outcome of the job's artifact write
  emitted,             \* [Workers -> signals emitted by the most recent call on the worker]
  currently_caching,   \* in-flight registry of the frame cache
  persisted,           \* persisted index of the frame cache: artifact names
  invalidated_,        \* PlaybackCache: sorted sequence of invalidated ranges
  length_,             \* PlaybackCache: timeline length
  last_call,           \* the PlaybackCache operation that ran last, with its arguments
  before,              \* invalidated_ and length_ as they were before last_call
  roundtrip,           \* set while last_call is the Validate(R) that follows Invalidate(R):
                       \* invalidated_ as it was before that Invalidate
  events,              \* hooks and notifications raised by last_call, in order
  graphs,              \* [Jobs -> the graph the job is given]
  fingerprint          \* [Jobs -> hasher.result() of the job, "" before it has run]

workerVars == <<operating_mode_, video_params_, pc, path, hash, texture, written,
                emitted, currently_caching, persisted>>

cacheVars == <<invalidated_, length_, last_call, before, roundtrip, events>>

hashVars == <<graphs, fingerprint>>

vars == <<workerVars, cacheVars, hashVars>>

\* The workers and the playback cache after construction.
Constructed ==
  /\ operating_mode_ = [w \in Workers |-> kHashRenderCache]
  /\ video_params_ = [w \in Workers |-> "PIX_FMT_INVALID"]
  /\ pc = [w \in Workers |-> "idle"]
  /\ path = [w \in Workers |-> NoPath]
  /\ hash = [w \in Workers |-> EmptyHash]
  /\ texture = [w \in Workers |-> "null"]
  /\ written = [w \in Workers |-> "none"]
  /\ emitted = [w \in Workers |-> <<>>]
  /\ currently_caching = {}
  /\ persisted = {}
  /\ invalidated_ = <<>>
  /\ length_ = 0
  /\ last_call = Call("PlaybackCache", 0, 0)
  /\ before = [inv |-> <<>>, len |-> 0]
  /\ roundtrip = [done |-> FALSE, inv |-> <<>>]
  /\ events = <<>>

Init ==
  /\ Constructed
  /\ graphs = [j \in Jobs |-> NewGraph]
  /\ fingerprint = [j \in Jobs |-> ""]

\* The fields in which two graphs differ.
Edits(g, h) == {f \in DOMAIN g : g[f] # h[f]}

\* The jobs are given any two graphs that are at most MaxEdits edits apart.
HashInit ==
  /\ Constructed
  /\ graphs \in {gs \in [Jobs -> Graphs] : Cardinality(Edits(gs["first"], gs["second"])) <= MaxEdits}
  /\ fingerprint = [j \in Jobs |-> ""]

SetOperatingMode(w, mode) ==
  /\ pc[w] = "idle"
  /\ UNCHANGED <<cacheVars, hashVars>>
  /\ mode # operating_mode_[w]
  /\ operating_mode_' = [operating_mode_ EXCEPT ![w] = mode]
  /\ emitted' = [emitted EXCEPT ![w] = <<>>]
  /\ UNCHANGED <<video_params_, pc, path, hash, texture, written, currently_caching, persisted>>

SetParameters(w, fmt) ==
  /\ pc[w] = "idle"
  /\ UNCHANGED <<cacheVars, hashVars>>
  /\ fmt # video_params_[w]
  /\ video_params_' = [video_params_ EXCEPT ![w] = fmt]
  /\ emitted' = [emitted EXCEPT ![w] = <<>>]
  /\ UNCHANGED <<operating_mode_, pc, path, hash, texture, written, currently_caching, persisted>>

\* RenderInternal testing the hash flag where it should test the render flag.
RenderInternal_TestsHashFlag(w, p) ==
  /\ pc[w] = "idle"
  /\ UNCHANGED <<cacheVars, hashVars>>
  /\ LET h == IF operating_mode_[w].kHashOnly THEN HashOf(video_params_[w], p) ELSE EmptyHash
     IN
       IF ~operating_mode_[w].kHashOnly
         THEN /\ emitted' = [emitted EXCEPT ![w] = <<Signal("CompletedDownload", p, h, FALSE)>>]
              /\ UNCHANGED <<pc, path, hash>>
         ELSE /\ emitted' = [emitted EXCEPT ![w] = <<>>]
              /\ path' = [path EXCEPT ![w] = p]
              /\ hash' = [hash EXCEPT ![w] = h]
              /\ pc' = [pc EXCEPT ![w] = "check"]
  /\ UNCHANGED <<operating_mode_, video_params_, texture, written, currently_caching, persisted>>

\* RenderInternal feeding the state of the in-flight registry to the hasher.
RenderInternal_HashesRegistry(w, p) ==
  /\ pc[w] = "idle"
  /\ UNCHANGED <<cacheVars, hashVars>>
  /\ LET h == IF operating_mode_[w].kHashOnly
                THEN HashOf(video_params_[w], p) \o <<currently_caching # {}>>
                ELSE EmptyHash
     IN
       IF ~operating_mode_[w].kRenderOnly
         THEN /\ emitted' = [emitted EXCEPT ![w] = <<Signal("CompletedDownload", p, h, FALSE)>>]
              /\ UNCHANGED <<pc, path, hash>>
         ELSE /\ emitted' = [emitted EXCEPT ![w] = <<>>]
              /\ path' = [path EXCEPT ![w] = p]
              /\ hash' = [hash EXCEPT ![w] = h]
              /\ pc' = [pc EXCEPT ![w] = IF operating_mode_[w].kHashOnly THEN "check" ELSE "render"]
  /\ UNCHANGED <<operating_mode_, video_params_, texture, written, currently_caching, persisted>>

\* RenderInternal computing the hash also when the hash flag is off.
RenderInternal_AlwaysHashes(w, p) ==
  /\ pc[w] = "idle"
  /\ UNCHANGED <<cacheVars, hashVars>>
  /\ LET h == HashOf(video_params_[w], p)
     IN
       IF ~operating_mode_[w].kRenderOnly
         THEN /\ emitted' = [emitted EXCEPT ![w] = <<Signal("CompletedDownload", p, h, FALSE)>>]
              /\ UNCHANGED <<pc, path, hash>>
         ELSE /\ emitted' = [emitted EXCEPT ![w] = <<>>]
              /\ path' = [path EXCEPT ![w] = p]
              /\ hash' = [hash EXCEPT ![w] = h]
              /\ pc' = [pc EXCEPT ![w] = IF operating_mode_[w].kHashOnly THEN "check" ELSE "render"]
  /\ UNCHANGED <<operating_mode_, video_params_, texture, written, currently_caching, persisted>>

\* Call of RenderInternal(path, job_time), lines 59-94 up to the first access
\* to the frame cache: the hash is computed and the mode is tested.
RenderInternal(w, p) ==
  /\ pc[w] = "idle"
  /\ UNCHANGED <<cacheVars, hashVars>>
  /\ LET h == IF operating_mode_[w].kHashOnly THEN HashOf(video_params_[w], p) ELSE EmptyHash
     IN
       IF ~operating_mode_[w].kRenderOnly
         THEN \* Emit only the hash
              /\ emitted' = [emitted EXCEPT ![w] = <<Signal("CompletedDownload", p, h, FALSE)>>]
              /\ UNCHANGED <<pc, path, hash>>
         ELSE /\ emitted' = [emitted EXCEPT ![w] = <<>>]
              /\ path' = [path EXCEPT ![w] = p]
              /\ hash' = [hash EXCEPT ![w] = h]
              /\ pc' = [pc EXCEPT ![w] = IF operating_mode_[w].kHashOnly THEN "check" ELSE "render"]
  /\ UNCHANGED <<operating_mode_, video_params_, texture, written, currently_caching, persisted>>

\* Back to the caller: the locals of RenderInternal go out of scope.
Return(w, sigs) ==
  /\ pc' = [pc EXCEPT ![w] = "idle"]
  /\ path' = [path EXCEPT ![w] = NoPath]
  /\ hash' = [hash EXCEPT ![w] = EmptyHash]
  /\ texture' = [texture EXCEPT ![w] = "null"]
  /\ written' = [written EXCEPT ![w] = "none"]
  /\ emitted' = [emitted EXCEPT ![w] = emitted[w] \o sigs]

\* Line 89: frame_cache_->HasHash(hash, format).
CheckCache(w) ==
  /\ pc[w] = "check"
  /\ UNCHANGED <<cacheVars, hashVars>>
  /\ IF HasHash(persisted, hash[w], video_params_[w])
       THEN \* We've already cached this hash, no need to continue
            Return(w, <<Signal("HashAlreadyExists", path[w], hash[w], FALSE)>>)
       ELSE /\ pc' = [pc EXCEPT ![w] = "reserve"]
            /\ UNCHANGED <<path, hash, texture, written, emitted>>
  /\ UNCHANGED <<operating_mode_, video_params_, currently_caching, persisted>>

\* Reserve rendering whatever TryCache answers.
Reserve_IgnoresTryCache(w) ==
  /\ pc[w] = "reserve"
  /\ UNCHANGED <<cacheVars, hashVars>>
  /\ currently_caching' = TryCache(currently_caching, hash[w]).registry
  /\ pc' = [pc EXCEPT ![w] = "render"]
  /\ UNCHANGED <<path, hash, texture, written, emitted>>
  /\ UNCHANGED <<operating_mode_, video_params_, persisted>>

\* Reserve releasing the hash on the deferred branch too.
Reserve_ReleasesOnDefer(w) ==
  /\ pc[w] = "reserve"
  /\ UNCHANGED <<cacheVars, hashVars>>
  /\ LET r == TryCache(currently_caching, hash[w])
     IN
       IF r.acquired
         THEN /\ currently_caching' = r.registry
              /\ pc' = [pc EXCEPT ![w] = "render"]
              /\ UNCHANGED <<path, hash, texture, written, emitted>>
         ELSE /\ currently_caching' = RemoveHashFromCurrentlyCaching(r.registry, hash[w])
              /\ Return(w, <<Signal("HashAlreadyBeingCached", path[w], hash[w], FALSE)>>)
  /\ UNCHANGED <<operating_mode_, video_params_, persisted>>

\* Line 94: frame_cache_->TryCache(hash), and the else branch of lines 114-119.
Reserve(w) ==
  /\ pc[w] = "reserve"
  /\ UNCHANGED <<cacheVars, hashVars>>
  /\ LET r == TryCache(currently_caching, hash[w])
     IN
       /\ currently_caching' = r.registry
       /\ IF r.acquired
            THEN /\ pc' = [pc EXCEPT ![w] = "render"]
                 /\ UNCHANGED <<path, hash, texture, written, emitted>>
            ELSE \* Another thread must be caching this already
                 Return(w, <<Signal("HashAlreadyBeingCached", path[w], hash[w], FALSE)>>)
  /\ UNCHANGED <<operating_mode_, video_params_, persisted>>

\* Lines 97-100: value = ProcessNode(path); texture = value.Get(kTexture).
ProcessNode(w) ==
  /\ pc[w] = "render"
  /\ UNCHANGED <<cacheVars, hashVars>>
  /\ \E t \in {"null", "texture"} : texture' = [texture EXCEPT ![w] = t]
  /\ pc' = [pc EXCEPT ![w] = "download"]
  /\ UNCHANGED <<operating_mode_, video_params_, path, hash, written, emitted,
                 currently_caching, persisted>>

\* Download(time, texture, filename), lines 276-386: [index, written, sigs].
\* created: whether OIIO::ImageOutput::create returned an encoder. The EXR arm
\* has no failure branch (an exception of Imf::OutputFile is not modelled).
Download(w, filename, created) ==
  IF operating_mode_[w].kDownloadOnly
    THEN IF video_params_[w] = "PIX_FMT_RGBA8"
           THEN IF created
                  THEN [index |-> persisted \cup {filename}, written |-> "ok", sigs |-> <<>>]
                  ELSE \* Failed to write JPEG file
                       [index |-> persisted, written |-> "failed", sigs |-> <<>>]
           ELSE IF video_params_[w] = "PIX_FMT_RGBA32F"
                  THEN [index |-> persisted \cup {filename}, written |-> "ok", sigs |-> <<>>]
                  ELSE \* Unable to cache invalid pixel format
                       [index |-> persisted, written |-> "failed", sigs |-> <<>>]
    ELSE [index |-> persisted, written |-> "none",
          sigs |-> <<Signal("GeneratedFrame", path[w], EmptyHash, texture[w] # "null")>>]

\* DownloadStep calling Download whether or not there is a texture.
DownloadStep_Always(w) ==
  /\ pc[w] = "download"
  /\ UNCHANGED <<cacheVars, hashVars>>
  /\ \E created \in BOOLEAN :
       LET d == Download(w, CachePathName(hash[w], video_params_[w]), created)
       IN /\ persisted' = d.index
          /\ written' = [written EXCEPT ![w] = d.written]
          /\ emitted' = [emitted EXCEPT ![w] = emitted[w] \o d.sigs]
  /\ pc' = [pc EXCEPT ![w] = "release"]
  /\ UNCHANGED <<operating_mode_, video_params_, path, hash, texture, currently_caching>>

\* DownloadStep calling Download only when there is a texture.
DownloadStep_OnlyWithTexture(w) ==
  /\ pc[w] = "download"
  /\ UNCHANGED <<cacheVars, hashVars>>
  /\ IF texture[w] # "null"
       THEN \E created \in BOOLEAN :
              LET d == Download(w, CachePathName(hash[w], video_params_[w]), created)
              IN /\ persisted' = d.index
                 /\ written' = [written EXCEPT ![w] = d.written]
                 /\ emitted' = [emitted EXCEPT ![w] = emitted[w] \o d.sigs]
       ELSE UNCHANGED <<persisted, written, emitted>>
  /\ pc' = [pc EXCEPT ![w] = "release"]
  /\ UNCHANGED <<operating_mode_, video_params_, path, hash, texture, currently_caching>>

\* Lines 102-105: download the texture into the disk cache, or generate a frame.
DownloadStep(w) ==
  /\ pc[w] = "download"
  /\ UNCHANGED <<cacheVars, hashVars>>
  /\ IF texture[w] # "null" \/ ~operating_mode_[w].kDownloadOnly
       THEN \E created \in BOOLEAN :
              LET d == Download(w, CachePathName(hash[w], video_params_[w]), created)
              IN /\ persisted' = d.index
                 /\ written' = [written EXCEPT ![w] = d.written]
                 /\ emitted' = [emitted EXCEPT ![w] = emitted[w] \o d.sigs]
       ELSE UNCHANGED <<persisted, written, emitted>>
  /\ pc' = [pc EXCEPT ![w] = "release"]
  /\ UNCHANGED <<operating_mode_, video_params_, path, hash, texture, currently_caching>>

\* Release keeping the reservation when the render produced no texture.
Release_KeepsOnNullTexture(w) ==
  /\ pc[w] = "release"
  /\ UNCHANGED <<cacheVars, hashVars>>
  /\ currently_caching' = IF texture[w] # "null"
                            THEN RemoveHashFromCurrentlyCaching(currently_caching, hash[w])
                            ELSE currently_caching
  /\ Return(w, IF operating_mode_[w].kDownloadOnly
                 THEN <<Signal("CompletedDownload", path[w], hash[w], texture[w] # "null")>>
                 ELSE <<>>)
  /\ UNCHANGED <<operating_mode_, video_params_, persisted>>

\* Lines 107-112: release the reservation and signal that the job is complete.
Release(w) ==
  /\ pc[w] = "release"
  /\ UNCHANGED <<cacheVars, hashVars>>
  /\ currently_caching' = RemoveHashFromCurrentlyCaching(currently_caching, hash[w])
  /\ Return(w, IF operating_mode_[w].kDownloadOnly
                 THEN <<Signal("CompletedDownload", path[w], hash[w], texture[w] # "null")>>
                 ELSE <<>>)
  /\ UNCHANGED <<operating_mode_, video_params_, persisted>>

\* ------------------------------------------------------------ PlaybackCache
\* A hook or notification with its argument and the invalidated list the
\* receiver reads when it runs.
Event(name, a, b, seen) == [ev |-> name, a |-> a, b |-> b, seen |-> seen]

\* The record of a call for the properties: what ran, and the state it ran on.
Recorded(op, a, b) ==
  /\ last_call' = Call(op, a, b)
  /\ before' = [inv |-> invalidated_, len |-> length_]
  /\ roundtrip' = IF op = "Validate" /\ last_call = Call("Invalidate", a, b)
                    THEN [done |-> TRUE, inv |-> before.inv]
                    ELSE [done |-> FALSE, inv |-> <<>>]
  /\ UNCHANGED <<workerVars, hashVars>>

\* Invalidate storing the range at the end of the list without merging it.
DoInvalidate_Appends(list, r) ==
  [list |-> list \o <<r>>,
   events |-> <<Event("InvalidateEvent", r.in, r.out, list \o <<r>>),
                Event("Invalidated", r.in, r.out, list \o <<r>>)>>]

\* Invalidate calling its hook before it inserts the range.
DoInvalidate_HookBeforeInsert(list, r) ==
  [list |-> InsertTimeRange(list, r),
   events |-> <<Event("InvalidateEvent", r.in, r.out, list),
                Event("Invalidated", r.in, r.out, InsertTimeRange(list, r))>>]

\* Body of Invalidate(r), lines 30-37, on the list it is given:
\* [list afterwards, hook and notification in order].
DoInvalidate(list, r) ==
  LET inserted == InsertTimeRange(list, r)
  IN [list |-> inserted,
      events |-> <<Event("InvalidateEvent", r.in, r.out, inserted),
                   Event("Invalidated", r.in, r.out, inserted)>>]

Invalidate(r) ==
  /\ invalidated_' = DoInvalidate(invalidated_, r).list
  /\ events' = DoInvalidate(invalidated_, r).events
  /\ Recorded("Invalidate", r.in, r.out)
  /\ UNCHANGED length_

\* SetLength that never trims the list when the length shrinks.
DoSetLength_NeverTrims(list, len, r) ==
  IF len = r
    THEN [list |-> list, len |-> len, events |-> <<>>]
    ELSE LET resized == IF r > len THEN InsertTimeRange(list, TimeRange(len, r)) ELSE list
         IN [list |-> resized, len |-> r,
             events |-> <<Event("LengthChangedEvent", len, r, resized)>>]

\* Body of SetLength(r), lines 39-57, on the list and length it is given:
\* [list afterwards, length afterwards, hooks in order].
DoSetLength(list, len, r) ==
  IF len = r
    THEN \* Same length - do nothing
         [list |-> list, len |-> len, events |-> <<>>]
    ELSE LET resized == IF r > len
                          THEN \* If new length is greater, simply extend the invalidated range
                               InsertTimeRange(list, TimeRange(len, r))
                          ELSE \* If new length is smaller, removed hashes
                               RemoveTimeRange(list, TimeRange(r, len))
         IN [list |-> resized, len |-> r,
             events |-> <<Event("LengthChangedEvent", len, r, resized)>>]

SetLength(r) ==
  /\ invalidated_' = DoSetLength(invalidated_, length_, r).list
  /\ length_' = DoSetLength(invalidated_, length_, r).len
  /\ events' = DoSetLength(invalidated_, length_, r).events
  /\ Recorded("SetLength", r, 0)

IsFullyValidated == isEmpty(invalidated_)

\* The foreach storing each moved range at the end of the list.
RECURSIVE InsertShifted_Appends(_, _, _)
InsertShifted_Appends(list, ranges_to_shift, diff) ==
  IF ranges_to_shift = <<>>
    THEN list
    ELSE InsertShifted_Appends(list \o <<Moved(Head(ranges_to_shift), diff)>>,
                               Tail(ranges_to_shift), diff)

RECURSIVE InsertShifted(_, _, _)
\* The foreach of lines 76-78.
InsertShifted(list, ranges_to_shift, diff) ==
  IF ranges_to_shift = <<>>
    THEN list
    ELSE InsertShifted(InsertTimeRange(list, Moved(Head(ranges_to_shift), diff)),
                       Tail(ranges_to_shift), diff)

\* Shift that never invalidates the section it opens.
DoShift_SkipsInvalidate(list, from, to) ==
  LET ranges_to_shift == Intersects(list, TimeRange(from, RATIONAL_MAX))
      removed == RemoveTimeRange(list, TimeRange(Min({from, to}), RATIONAL_MAX))
      shifted == InsertShifted(removed, ranges_to_shift, to - from)
  IN [list |-> shifted, events |-> <<Event("ShiftEvent", from, to, shifted)>>]

\* Shift that clears the list from `from` on, also when it shifts backward.
DoShift_RemovesFromFrom(list, from, to) ==
  LET ranges_to_shift == Intersects(list, TimeRange(from, RATIONAL_MAX))
      removed == RemoveTimeRange(list, TimeRange(from, RATIONAL_MAX))
      diff == to - from
      shifted == InsertShifted(removed, ranges_to_shift, diff)
      inv == DoInvalidate(shifted, TimeRange(from, to))
  IN IF diff > 0
       THEN [list |-> inv.list,
             events |-> <<Event("ShiftEvent", from, to, shifted)>> \o inv.events]
       ELSE [list |-> shifted, events |-> <<Event("ShiftEvent", from, to, shifted)>>]

\* Body of Shift(from, to), lines 64-86, on the list it is given:
\* [list afterwards, hooks and notifications in order].
DoShift(list, from, to) ==
  LET ranges_to_shift == Intersects(list, TimeRange(from, RATIONAL_MAX))
      \* Remove everything from the minimum point
      removed == RemoveTimeRange(list, TimeRange(Min({from, to}), RATIONAL_MAX))
      \* Shift everything in our ranges to shift list
      diff == to - from
      shifted == InsertShifted(removed, ranges_to_shift, diff)
      inv == DoInvalidate(shifted, TimeRange(from, to))
  IN IF diff > 0
       THEN \* If shifting forward, add this section to the invalidated region
            [list |-> inv.list,
             events |-> <<Event("ShiftEvent", from, to, shifted)>> \o inv.events]
       ELSE [list |-> shifted, events |-> <<Event("ShiftEvent", from, to, shifted)>>]

Shift(from, to) ==
  LET ranges_to_shift == Intersects(invalidated_, TimeRange(from, RATIONAL_MAX))
  IN
    \* the model keeps the stored times within Slack of [0, MaxTime]
    /\ \A i \in 1..Len(ranges_to_shift) :
         /\ ranges_to_shift[i].in + (to - from) >= 0 - Slack
         /\ ranges_to_shift[i].out + (to - from) <= MaxTime + Slack
    /\ invalidated_' = DoShift(invalidated_, from, to).list
    /\ events' = DoShift(invalidated_, from, to).events
    /\ Recorded("Shift", from, to)
    /\ UNCHANGED length_

\* Validate raising its notification without removing the range.
Validate_OnlyNotifies(r) ==
  /\ invalidated_' = invalidated_
  /\ events' = <<Event("Validated", r.in, r.out, invalidated_)>>
  /\ Recorded("Validate", r.in, r.out)
  /\ UNCHANGED length_

Validate(r) ==
  /\ invalidated_' = RemoveTimeRange(invalidated_, r)
  /\ events' = <<Event("Validated", r.in, r.out, RemoveTimeRange(invalidated_, r))>>
  /\ Recorded("Validate", r.in, r.out)
  /\ UNCHANGED length_

InvalidateAll ==
  /\ invalidated_' = DoInvalidate(invalidated_, TimeRange(0, length_)).list
  /\ events' = DoInvalidate(invalidated_, TimeRange(0, length_)).events
  /\ Recorded("InvalidateAll", 0, 0)
  /\ UNCHANGED length_

Next ==
  \E w \in Workers :
    \/ \E mode \in OperatingModes : SetOperatingMode(w, mode)
    \/ \E fmt \in Formats : SetParameters(w, fmt)
    \/ \E p \in Paths : RenderInternal(w, p)
    \/ CheckCache(w)
    \/ Reserve(w)
    \/ ProcessNode(w)
    \/ DownloadStep(w)
    \/ Release(w)

Spec == Init /\ [][Next]_vars

CacheNext ==
  \/ \E r \in Ranges : Invalidate(r)
  \/ \E r \in Ranges : Validate(r)
  \/ \E r \in Times : SetLength(r)
  \/ \E from \in Times, to \in Times : Shift(from, to)
  \/ InvalidateAll

CacheSpec == Init /\ [][CacheNext]_vars

\* Lines 63-80 of RenderInternal in a job with the hash flag set: the graph
\* is hashed at the job's time.
HashJob(j) ==
  /\ fingerprint' = [fingerprint EXCEPT ![j] = HashGraph(graphs[j], HashTime)]
  /\ UNCHANGED <<graphs, workerVars, cacheVars>>

HashNext == \E j \in Jobs : HashJob(j)

HashSpec == HashInit /\ [][HashNext]_vars

\* ------------------------------------------------------------------ claims
\* The worker holds the reservation of its hash: it is between a successful
\* TryCache and RemoveHashFromCurrentlyCaching.
Holds(w) == operating_mode_[w].kHashOnly /\ pc[w] \in {"render", "download", "release"}

\* The step starts a job on worker w.
JobStart(w) ==
  /\ pc[w] = "idle"
  /\ UNCHANGED <<cacheVars, hashVars>>
  /\ operating_mode_'[w] = operating_mode_[w]
  /\ video_params_'[w] = video_params_[w]
  /\ (pc'[w] # "idle" \/ emitted'[w] # emitted[w])

MutualExclusion ==
  \A w1, w2 \in Workers : (Holds(w1) /\ Holds(w2) /\ hash[w1] = hash[w2]) => w1 = w2

\* C1: at every moment at most one worker holds the reservation of a hash, and
\* a worker calling TryCache(h) acquires h exactly when no reservation of h is
\* held; otherwise it does not render.
C1_OneReservationPerHash ==
  [][ /\ MutualExclusion'
      /\ \A w \in Workers :
           (pc[w] = "reserve" /\ pc'[w] # "reserve") =>
             IF hash[w] \in currently_caching
               THEN pc'[w] = "idle" /\ ~Holds(w)'
               ELSE pc'[w] = "render" /\ currently_caching' = currently_caching \cup {hash[w]}
    ]_vars

C1_Witness ==
  \E w1, w2 \in Workers :
    /\ w1 # w2
    /\ Holds(w1) /\ pc[w1] = "render"
    /\ pc[w2] = "idle"
    /\ \E p \in Paths : emitted[w2] = <<Signal("HashAlreadyBeingCached", p, hash[w1], FALSE)>>

\* C2: no worker in a hash+render mode is rendering a hash that has a Complete
\* entry in the persisted index.
C2_NoRenderOfCompleteHash ==
  \A w \in Workers :
    (pc[w] = "render" /\ operating_mode_[w].kHashOnly)
      => ~HasHash(persisted, hash[w], video_params_[w])

\* C3: a hash is in the in-flight registry only while some worker holds it, so
\* a hash nobody is rendering or storing can be reserved again.
C3_ReservationReleased ==
  /\ \A h \in currently_caching : \E w \in Workers : Holds(w) /\ hash[w] = h
  /\ \A h \in Fingerprints :
       (\A w \in Workers : ~(Holds(w) /\ hash[w] = h)) => TryCache(currently_caching, h).acquired

C3_Witness ==
  \E w1, w2 \in Workers :
    /\ w1 # w2
    /\ pc[w1] = "idle"
    /\ Holds(w2)
    /\ \E p \in Paths : emitted[w1] = <<Signal("CompletedDownload", p, hash[w2], TRUE)>>
    /\ ~HasHash(persisted, hash[w2], video_params_[w2])

\* C4: an artifact of a fingerprint enters the persisted index only in the
\* download step of the worker that holds the fingerprint, with the persist
\* flag set, a texture, and a write that succeeded.
C4_CompleteOnlyByHolderWrite ==
  [][ \A f \in persisted' \ persisted :
        f[1] \in Fingerprints =>
          \E w \in Workers :
            /\ pc[w] = "download" /\ pc'[w] = "release"
            /\ Holds(w) /\ hash[w] = f[1] /\ hash[w] \in currently_caching
            /\ f = CachePathName(hash[w], video_params_[w])
            /\ operating_mode_[w].kDownloadOnly
            /\ texture[w] # "null"
            /\ written'[w] = "ok"
    ]_vars

C4_Witness ==
  \E w \in Workers :
    /\ pc[w] = "release" /\ written[w] = "ok" /\ hash[w] \in Fingerprints
    /\ HasHash(persisted, hash[w], video_params_[w])

\* C5: when the store step of a job for fingerprint h failed, then at the end
\* of the job h is neither in the persisted index nor in the in-flight
\* registry (so the next job for h misses, reserves and renders).
C5_FailedStoreLeavesNoEntry ==
  [][ \A w \in Workers :
        (pc[w] = "release" /\ pc'[w] = "idle" /\ written[w] = "failed"
           /\ hash[w] \in Fingerprints)
          => /\ ~HasHash(persisted', hash[w], video_params_[w])
             /\ hash[w] \notin currently_caching'
    ]_vars

\* C6: a job whose mode has no render flag ends in its first step, leaves the
\* in-flight registry and the persisted index alone, and emits exactly one
\* CompletedDownload carrying the hash with success = false.
C6_HashOnlyJob ==
  [][ \A w \in Workers :
        (JobStart(w) /\ ~operating_mode_[w].kRenderOnly) =>
          /\ pc'[w] = "idle"
          /\ currently_caching' = currently_caching
          /\ persisted' = persisted
          /\ \E p \in Paths :
               emitted'[w] = <<Signal("CompletedDownload", p,
                                      IF operating_mode_[w].kHashOnly
                                        THEN HashOf(video_params_[w], p) ELSE EmptyHash,
                                      FALSE)>>
    ]_vars

C6_Witness ==
  \E w1, w2 \in Workers :
    /\ w1 # w2
    /\ Holds(w2)
    /\ pc[w1] = "idle"
    /\ ~operating_mode_[w1].kRenderOnly /\ operating_mode_[w1].kHashOnly
    /\ \E p \in Paths : emitted[w1] = <<Signal("CompletedDownload", p, hash[w2], FALSE)>>

\* C7: a job that renders with the persist flag off emits GeneratedFrame
\* exactly once, in its download step (a zero-filled frame when there is no
\* texture), and no step of it changes the persisted index.
C7_FrameInsteadOfArtifact ==
  [][ \A w \in Workers :
        (operating_mode_[w].kRenderOnly /\ ~operating_mode_[w].kDownloadOnly
           /\ pc[w] # "idle" /\ pc'[w] # pc[w]) =>
          /\ persisted' = persisted
          /\ pc[w] = "render" => emitted'[w] = <<>>
          /\ pc[w] = "download" =>
               /\ emitted[w] = <<>>
               /\ emitted'[w] = <<Signal("GeneratedFrame", path[w], EmptyHash, texture[w] # "null")>>
          /\ pc[w] = "release" => (emitted'[w] = emitted[w] /\ Len(emitted[w]) = 1)
    ]_vars

C7_Witness ==
  \E w \in Workers :
    /\ pc[w] = "idle"
    /\ operating_mode_[w].kRenderOnly /\ ~operating_mode_[w].kDownloadOnly
    /\ \E p \in Paths : emitted[w] = <<Signal("GeneratedFrame", p, EmptyHash, FALSE)>>
    /\ persisted # {}

\* C8: a job whose TryCache fails ends there: it emits only
\* HashAlreadyBeingCached and changes neither the in-flight registry nor the
\* persisted index.
C8_DeferredJob ==
  [][ \A w \in Workers :
        (pc[w] = "reserve" /\ pc'[w] # "reserve" /\ hash[w] \in currently_caching) =>
          /\ pc'[w] = "idle"
          /\ emitted'[w] = <<Signal("HashAlreadyBeingCached", path[w], hash[w], FALSE)>>
          /\ currently_caching' = currently_caching
          /\ persisted' = persisted
    ]_vars

C8_Witness ==
  \E w1, w2 \in Workers :
    /\ w1 # w2
    /\ Holds(w1) /\ pc[w1] = "download" /\ hash[w1] \in currently_caching
    /\ pc[w2] = "idle"
    /\ \E p \in Paths : emitted[w2] = <<Signal("HashAlreadyBeingCached", p, hash[w1], FALSE)>>
\* The range R of the call that ran last.
LastRange == TimeRange(last_call.a, last_call.b)

\* r is not degenerate and overlaps a range of the list.
Overlapping(list, r) == r.in < r.out /\ Intersects(list, r) # <<>>

\* C9 as stated: Invalidate(R) followed by Validate(R) returns the invalidated
\* set to what it was before the two calls, whatever it was.
C9_RoundTripRestores ==
  roundtrip.done => invalidated_ = roundtrip.inv

\* C9 amended: Invalidate(R) followed by Validate(R) returns the invalidated
\* set to what it was before the two calls when no range of it overlapped R;
\* a set that was empty is empty again.
C9_RoundTripRestoresDisjoint ==
  roundtrip.done =>
    /\ ~Overlapping(roundtrip.inv, LastRange) => invalidated_ = roundtrip.inv
    /\ isEmpty(roundtrip.inv) => IsFullyValidated

C9_Witness ==
  /\ roundtrip.done
  /\ LastRange.in < LastRange.out
  /\ ~isEmpty(roundtrip.inv)
  /\ ~Overlapping(roundtrip.inv, LastRange)
  /\ Len(before.inv) = Len(roundtrip.inv)
  /\ invalidated_ = roundtrip.inv

\* C10: every range of the invalidated set lies within [0, length).
C10_InvalidatedWithinLength ==
  \A i \in 1..Len(invalidated_) :
    invalidated_[i].in >= 0 /\ invalidated_[i].out <= length_

\* The unit cells [t, t+1) that the ranges of a list cover.
Cells(list) == UNION {r.in .. (r.out - 1) : r \in Elems(list)}

\* The list is in canonical form: sorted by in-point, no empty range, no two
\* ranges overlapping or touching.
Canonical(list) ==
  /\ \A i \in 1..Len(list) : list[i].in < list[i].out
  /\ \A i \in 1..(Len(list) - 1) : list[i].out < list[i + 1].in

\* The cells of the stored ranges that intersect [from, +inf), each range
\* taken whole, moved by diff.
MovedCells(list, from, diff) ==
  {c + diff : c \in Cells(SelectSeq(list, LAMBDA r : r.out > from))}

\* C11: SetLength(N) on a cache of length L with invalidated set S changes
\* nothing and raises no hook when N = L; when N > L the set becomes S plus
\* [L, N), merged; when N < L it becomes S minus [N, L); the length becomes N
\* and the length hook runs once. A cache of length 5 invalidated on [0, 5)
\* is invalidated on [0, 8) after SetLength(8) and on [0, 3) after a following
\* SetLength(3).
C11_SetLength ==
  /\ last_call.op = "SetLength" =>
       LET N == last_call.a
           L == before.len
           S == before.inv
       IN /\ length_ = N
          /\ N = L => (invalidated_ = S /\ events = <<>>)
          /\ N > L => Cells(invalidated_) = Cells(S) \cup (L .. (N - 1))
          /\ N < L => Cells(invalidated_) = Cells(S) \ (N .. (L - 1))
          /\ N # L => events = <<Event("LengthChangedEvent", L, N, invalidated_)>>
          /\ Canonical(S) => Canonical(invalidated_)
  /\ LET grown == DoSetLength(<<TimeRange(0, 5)>>, 5, 8)
         shrunk == DoSetLength(grown.list, grown.len, 3)
     IN /\ grown.list = <<TimeRange(0, 8)>> /\ grown.len = 8
        /\ shrunk.list = <<TimeRange(0, 3)>> /\ shrunk.len = 3

C11_Witness ==
  /\ last_call.op = "SetLength"
  /\ before.len = 3 /\ before.inv = <<TimeRange(0, 3)>>
  /\ length_ = 1 /\ invalidated_ = <<TimeRange(0, 1)>>

\* C12: Shift(from, to) with to > from leaves exactly the part of S before
\* `from`, every stored range of S that intersects [from, +inf) moved later by
\* to - from, and [from, to), all merged. Shift(2, 5) on {[3, 4)} gives
\* {[2, 5), [6, 7)}.
C12_ShiftForward ==
  /\ (last_call.op = "Shift" /\ last_call.b > last_call.a) =>
       LET from == last_call.a
           to == last_call.b
           S == before.inv
       IN /\ Cells(invalidated_) = {c \in Cells(S) : c < from}
                                     \cup MovedCells(S, from, to - from)
                                     \cup (from .. (to - 1))
          /\ Canonical(S) => Canonical(invalidated_)
  /\ DoShift(<<TimeRange(3, 4)>>, 2, 5).list = <<TimeRange(2, 5), TimeRange(6, 7)>>

C12_Witness ==
  /\ last_call = Call("Shift", 0, 2)
  /\ before.inv = <<TimeRange(1, 2)>>
  /\ invalidated_ = <<TimeRange(0, 2), TimeRange(3, 4)>>

\* C13: after any sequence of operations the invalidated set is canonical:
\* sorted by in-point, every range with in < out, no two ranges overlapping
\* and none ending where the next begins.
C13_Canonical == Canonical(invalidated_)

C13_Witness ==
  /\ last_call.op = "Shift"
  /\ Len(before.inv) = 2
  /\ Len(invalidated_) = 2
  /\ invalidated_ # before.inv

\* a and b overlap or touch.
Touching(a, b) == a.in <= b.out /\ b.in <= a.out

\* C14: invalidating a non-degenerate range B that overlaps or touches the
\* one stored range A leaves exactly the one range [min in, max out),
\* whichever of the two was stored first; a range B that overlaps or touches
\* several stored ranges leaves them and B merged into one, the other stored
\* ranges unchanged.
C14_InsertMerges ==
  (last_call.op = "Invalidate" /\ LastRange.in < LastRange.out) =>
    LET B == LastRange
        S == before.inv
        hit == {a \in Elems(S) : Touching(a, B)}
        joined == hit \cup {B}
        span == TimeRange(Min({a.in : a \in joined}), Max({a.out : a \in joined}))
    IN /\ (Len(S) = 1 /\ Touching(S[1], B)) => invalidated_ = <<span>>
       /\ S = <<>> => invalidated_ = <<B>>
       /\ Elems(invalidated_) = (Elems(S) \ joined) \cup {span}
       /\ Len(invalidated_) = Len(S) - Cardinality(hit) + 1
       /\ Canonical(S) => Canonical(invalidated_)

C14_Witness ==
  /\ last_call.op = "Invalidate"
  /\ Len(before.inv) = 2
  /\ before.inv[1].out = LastRange.in /\ LastRange.out = before.inv[2].in
  /\ invalidated_ = <<TimeRange(before.inv[1].in, before.inv[2].out)>>

\* The range that the Invalidate of the last call was given.
InvalidatedRange ==
  IF last_call.op = "InvalidateAll" THEN TimeRange(0, before.len) ELSE LastRange

\* The last call ran Invalidate: it was Invalidate, InvalidateAll or a
\* forward Shift.
RanInvalidate ==
  \/ last_call.op \in {"Invalidate", "InvalidateAll"}
  \/ last_call.op = "Shift" /\ last_call.b > last_call.a

\* C19: every run of Invalidate(r), also from InvalidateAll and from a forward
\* Shift, inserts r, then calls the InvalidateEvent hook with r, then raises
\* the Invalidated notification with r, each once, so that hook and listeners
\* read a set that covers r; in a forward Shift the ShiftEvent hook runs before
\* them.
C19_InvalidateOrder ==
  RanInvalidate =>
    LET r == InvalidatedRange
        n == Len(events)
    IN /\ n = IF last_call.op = "Shift" THEN 3 ELSE 2
       /\ events[n - 1] = Event("InvalidateEvent", r.in, r.out, invalidated_)
       /\ events[n] = Event("Invalidated", r.in, r.out, invalidated_)
       /\ (r.in .. (r.out - 1)) \subseteq Cells(events[n - 1].seen)
       /\ last_call.op = "Shift" =>
            /\ events[1].ev = "ShiftEvent"
            /\ events[1].a = r.in /\ events[1].b = r.out

C19_Witness ==
  /\ last_call.op = "Shift" /\ last_call.b > last_call.a
  /\ before.inv # <<>>
  /\ Len(events) = 3
  /\ events[1].seen # invalidated_
  /\ events[2].seen = invalidated_

\* C20: Shift(from, to) with to < from leaves exactly the part of S before
\* `to` and every stored range of S that intersects [from, +inf) moved earlier
\* by from - to; it invalidates nothing else and raises no Invalidated
\* notification, only the shift hook.
C20_ShiftBackward ==
  (last_call.op = "Shift" /\ last_call.b < last_call.a) =>
    LET from == last_call.a
        to == last_call.b
        S == before.inv
    IN /\ Cells(invalidated_) = {c \in Cells(S) : c < to}
                                  \cup MovedCells(S, from, to - from)
       /\ Canonical(S) => Canonical(invalidated_)
       /\ events = <<Event("ShiftEvent", from, to, invalidated_)>>

C20_Witness ==
  /\ last_call = Call("Shift", 2, 1)
  /\ before.inv = <<TimeRange(0, 1), TimeRange(2, 3)>>
  /\ invalidated_ = <<TimeRange(0, 2)>>

\* The fingerprints worker w has computed with its present parameters, each
\* with the path and video parameters it was computed for: that of the job in
\* progress and those of the signals of its last job.
Hashed(w) ==
  IF ~operating_mode_[w].kHashOnly
    THEN {}
    ELSE (IF pc[w] # "idle"
            THEN {[path |-> path[w], params |-> video_params_[w], hash |-> hash[w]]}
            ELSE {})
         \cup {[path |-> e.path, params |-> video_params_[w], hash |-> e.hash] :
                 e \in {x \in Elems(emitted[w]) : x.sig # "GeneratedFrame"}}

BothHashed == \A j \in Jobs : fingerprint[j] # ""

\* What the node connected to an input of the root gives the render at the
\* time: the solid generator with its colour, or the block that is active on
\* the track with its kind, its progress when it is a transition, and the file
\* and media time of its footage, or nothing when no block is active.
Reached(g, connected, time) ==
  IF connected = "solid"
    THEN [node |-> "solid", color |-> g.color, progress |-> "", footage |-> 0, media_time |-> 0]
    ELSE IF BlockAtTime(g, time) = "null"
      THEN [node |-> "null", color |-> 0, progress |-> "", footage |-> 0, media_time |-> 0]
      ELSE [node |-> g.type, color |-> 0, progress |-> AddProgress(g, "block", time),
            footage |-> g.footage, media_time |-> time + g.media_in]

\* The content-relevant state of a graph at the time: the video parameters
\* and, for each input of the root, what is reached through it.
Content(g, time) ==
  [format |-> g.format, base |-> Reached(g, g.base, time), blend |-> Reached(g, g.blend, time)]

\* C15: two graphs with the same fingerprint at the hashed time have the same
\* content-relevant state: the same video parameters and, through each input,
\* the same resolved node with the same literal values and the same media
\* identity, also when a connected track has no active block at that time.
C15_EqualFingerprintEqualContent ==
  (BothHashed /\ fingerprint["first"] = fingerprint["second"]) =>
    Content(graphs["first"], HashTime) = Content(graphs["second"], HashTime)

\* The solid generator is reached from the root through a hashed input.
SolidReached(g) == g.base = "solid" \/ g.blend = "solid"

\* C17: two graphs that differ only in the literal value of the colour input
\* of the solid generator, reached from the root, have different fingerprints
\* at the same time, and a graph with the original value restored has the
\* original fingerprint.
C17_LiteralChangesFingerprint ==
  BothHashed =>
    /\ (Edits(graphs["first"], graphs["second"]) = {"color"} /\ SolidReached(graphs["first"]))
         => fingerprint["first"] # fingerprint["second"]
    /\ graphs["first"] = graphs["second"] => fingerprint["first"] = fingerprint["second"]

C17_Witness ==
  /\ BothHashed
  /\ Edits(graphs["first"], graphs["second"]) = {"color"}
  /\ graphs["first"].blend = "solid" /\ graphs["first"].base = "track"
  /\ BlockAtTime(graphs["first"], HashTime) = "block"
  /\ fingerprint["first"] # fingerprint["second"]

\* The two graphs differ, and only in scheduling inputs of the block, and at
\* the hashed time the same block is active in both with the same locally
\* adjusted upstream time.
OnlyReScheduled ==
  LET g == graphs["first"]
      h == graphs["second"]
      buffer == parameters(g, "block")[4]
  IN /\ Edits(g, h) # {}
     /\ Edits(g, h) \subseteq {"media_in", "speed", "length"}
     /\ BlockAtTime(g, HashTime) = BlockAtTime(h, HashTime)
     /\ InputTimeAdjustment(g, "block", buffer, HashTime)
          = InputTimeAdjustment(h, "block", buffer, HashTime)

\* C18 as stated: two graphs that differ only in scheduling inputs of the
\* block (media-in, speed, length: their values or the nodes connected to
\* them), hashed at an instant whose locally adjusted upstream times are the
\* same, have the same fingerprint.
C18_SchedulingNotHashed ==
  (BothHashed /\ OnlyReScheduled) => fingerprint["first"] = fingerprint["second"]

\* C18 amended: they have the same fingerprint when, in addition, the block
\* reached at that instant is not a transition or has the same three progress
\* values in both graphs.
C18_SchedulingNotHashedSameProgress ==
  (BothHashed /\ OnlyReScheduled
     /\ AddProgress(graphs["first"], "block", HashTime) = AddProgress(graphs["second"], "block", HashTime))
    => fingerprint["first"] = fingerprint["second"]

C18_Witness ==
  /\ BothHashed /\ OnlyReScheduled
  /\ graphs["first"].type = "kClip"
  /\ graphs["first"].base = "track"
  /\ BlockAtTime(graphs["first"], HashTime) = "block"
  /\ graphs["first"].length # graphs["second"].length
  /\ graphs["first"].speed # graphs["second"].speed
  /\ fingerprint["first"] = fingerprint["second"]

\* C21: Shift(from, to) leaves the staleness of every instant before
\* min(from, to) as it was: such an instant is in the invalidated set after
\* the Shift exactly when it was before, also when a stored range straddles
\* `from`.
C21_ShiftKeepsEarlier ==
  last_call.op = "Shift" =>
    LET first == Min({last_call.a, last_call.b})
    IN {c \in Cells(invalidated_) : c < first} = {c \in Cells(before.inv) : c < first}

\* C22: whenever a worker has emitted CompletedDownload for a hash with
\* success = true, the artifact of that hash and of the worker's format is in
\* the persisted index; a job whose write failed never reports success.
C22_SuccessMeansStored ==
  \A w \in Workers :
    \A i \in 1..Len(emitted[w]) :
      (emitted[w][i].sig = "CompletedDownload" /\ emitted[w][i].flag)
        => HasHash(persisted, emitted[w][i].hash, video_params_[w])

\* C23: a step removes a hash from the in-flight registry only as the release
\* of the one worker that acquired it; the release of a job without the hash
\* flag, which calls RemoveHashFromCurrentlyCaching with its empty hash,
\* leaves the registry as it is, and every hash stays held by at most one
\* worker.
C23_RemovesOnlyOwn ==
  [][ /\ \A h \in currently_caching \ currently_caching' :
           \E w \in Workers :
             /\ pc[w] = "release" /\ pc'[w] = "idle"
             /\ Holds(w) /\ hash[w] = h
             /\ \A w2 \in Workers \ {w} : ~(Holds(w2) /\ hash[w2] = h)
      /\ \A w \in Workers :
           (pc[w] = "release" /\ pc'[w] = "idle" /\ ~operating_mode_[w].kHashOnly)
             => (hash[w] = EmptyHash /\ currently_caching' = currently_caching)
      /\ MutualExclusion'
      /\ \A w \in Workers : Holds(w)' => hash'[w] \in currently_caching'
    ]_vars

C23_Witness ==
  \E w1, w2 \in Workers :
    /\ w1 # w2
    /\ pc[w1] = "idle"
    /\ ~operating_mode_[w1].kHashOnly /\ operating_mode_[w1].kRenderOnly
    /\ \E p \in Paths : emitted[w1] = <<Signal("CompletedDownload", p, EmptyHash, TRUE)>>
    /\ Holds(w2) /\ pc[w2] = "release" /\ hash[w2] \in currently_caching
====
